---- MODULE Spec2Model ----
(***************************************************************************)
(* Category aggregation and periodic summary engine of the journal bot:    *)
(* summaries.py (store query, aggregation, summarization driver, window    *)
(* builders, sink), schedule.py (the scheduled jobs) and the summary       *)
(* handler of bot.py (the manual trigger).                                 *)
(*                                                                         *)
(* Strings the code inspects character by character (the category field)   *)
(* are sequences of one-character strings; strings it only passes on       *)
(* (entry texts, summary texts) are atomic.                                *)
(***************************************************************************)
EXTENDS Integers, Sequences, FiniteSets, TLC

\* ------------------------------------------------------------------------
\* Bounds of the model
\* ------------------------------------------------------------------------
\* Longest entry list handed to the aggregator in GroupSpec.
MaxEntries == 2
\* Longest run of whitespace put around a category token in GroupSpec.
MaxPad == 1

\* ------------------------------------------------------------------------
\* Python str operations used on the category field
\* ------------------------------------------------------------------------
Lowers ==
    <<"a","b","c","d","e","f","g","h","i","j","k","l","m",
      "n","o","p","q","r","s","t","u","v","w","x","y","z">>

Uppers ==
    <<"A","B","C","D","E","F","G","H","I","J","K","L","M",
      "N","O","P","Q","R","S","T","U","V","W","X","Y","Z">>

Whitespace == {" ", "\t", "\n"}

IsLower(ch) == \E i \in 1..Len(Lowers) : Lowers[i] = ch

IsUpper(ch) == \E i \in 1..Len(Uppers) : Uppers[i] = ch

IsCased(ch) == IsLower(ch) \/ IsUpper(ch)

ch_upper(ch) ==
    IF IsLower(ch)
    THEN Uppers[CHOOSE i \in 1..Len(Lowers) : Lowers[i] = ch]
    ELSE ch

ch_lower(ch) ==
    IF IsUpper(ch)
    THEN Lowers[CHOOSE i \in 1..Len(Uppers) : Uppers[i] = ch]
    ELSE ch

\* str.title(): a cased character is upper-cased when the character before
\* it is not cased, lower-cased when it is; other characters are kept.
str_title(s) ==
    [i \in 1..Len(s) |->
        IF IsCased(s[i])
        THEN IF i > 1 /\ IsCased(s[i-1]) THEN ch_lower(s[i]) ELSE ch_upper(s[i])
        ELSE s[i]]

\* str.strip(): leading and trailing whitespace removed.
str_strip(s) ==
    LET keep == {i \in 1..Len(s) : s[i] \notin Whitespace}
    IN  IF keep = {} THEN <<>>
        ELSE LET first == CHOOSE i \in keep : \A j \in keep : i <= j
                 last  == CHOOSE i \in keep : \A j \in keep : j <= i
             IN  SubSeq(s, first, last)

\* str.split(","): the pieces between the commas, empty pieces included.
RECURSIVE str_split(_)
str_split(s) ==
    LET commas == {i \in 1..Len(s) : s[i] = ","}
    IN  IF commas = {} THEN <<s>>
        ELSE LET i == CHOOSE c \in commas : \A d \in commas : c <= d
             IN  <<SubSeq(s, 1, i - 1)>> \o str_split(SubSeq(s, i + 1, Len(s)))

\* A NULL categories column: Python's None.  It is a one-element sequence
\* whose element is no character, so it differs from every string.
PyNone == <<"None">>

\* Truth value of a str-or-None: None and "" are false.
Truthy(cats) == cats # PyNone /\ cats # <<>>

\* ------------------------------------------------------------------------
\* The category vocabulary
\* ------------------------------------------------------------------------
\* Keys of ALLOWED_CATEGORIES in insertion (= iteration) order.
\* Mutant: the dictionary lists Health before Work.
MutHealthFirst == <<"Health", "Work", "Relationships", "Purpose">>

ALLOWED_CATEGORIES == <<"Work", "Health", "Relationships", "Purpose">>

Categories == {ALLOWED_CATEGORIES[i] : i \in 1..Len(ALLOWED_CATEGORIES)}

\* The characters of a vocabulary key.
KeyChars(c) ==
    CASE c = "Work" -> <<"W","o","r","k">>
      [] c = "Health" -> <<"H","e","a","l","t","h">>
      [] c = "Relationships" ->
            <<"R","e","l","a","t","i","o","n","s","h","i","p","s">>
      [] c = "Purpose" -> <<"P","u","r","p","o","s","e">>

\* `cat in ALLOWED_CATEGORIES` for a normalized token.
InVocabulary(tok) == \E c \in Categories : KeyChars(c) = tok

KeyOf(tok) == CHOOSE c \in Categories : KeyChars(c) = tok

\* ------------------------------------------------------------------------
\* Category aggregator
\* ------------------------------------------------------------------------
\* One token of the comma-separated field, normalized as line 88 does.
MutNormalizeNoTitle(tok) == str_strip(tok)

MutNormalizeNoStrip(tok) == str_title(tok)

normalize_category(tok) == str_title(str_strip(tok))

\* entry_categories of line 88.
entry_categories(cats) ==
    LET parts == str_split(cats)
    IN  [i \in 1..Len(parts) |-> normalize_category(parts[i])]

\* Mutant: the text is put at the front of its pool.
RECURSIVE MutPrependEntry(_, _, _, _)
MutPrependEntry(grouped, transcription, toks, i) ==
    IF i > Len(toks) THEN grouped
    ELSE IF InVocabulary(toks[i])
         THEN MutPrependEntry(
                 [grouped EXCEPT ![KeyOf(toks[i])] = <<transcription>> \o @],
                 transcription, toks, i + 1)
         ELSE MutPrependEntry(grouped, transcription, toks, i + 1)

\* The inner loop of lines 89-91 over one entry's tokens.
RECURSIVE append_entry(_, _, _, _)
append_entry(grouped, transcription, toks, i) ==
    IF i > Len(toks) THEN grouped
    ELSE IF InVocabulary(toks[i])
         THEN append_entry(
                 [grouped EXCEPT ![KeyOf(toks[i])] = Append(@, transcription)],
                 transcription, toks, i + 1)
         ELSE append_entry(grouped, transcription, toks, i + 1)

\* The outer loop of lines 84-91.
RECURSIVE group_loop(_, _, _)
group_loop(grouped, entries, n) ==
    IF n > Len(entries) THEN grouped
    ELSE LET e == entries[n]
         IN  IF Truthy(e.cats)
             THEN group_loop(
                     append_entry(grouped, e.text, entry_categories(e.cats), 1),
                     entries, n + 1)
             ELSE group_loop(grouped, entries, n + 1)

\* Mutant: `grouped` is a module-level dictionary that keeps what the
\* previous call left in it.
MutGroupedKept(previous) == previous

\* Line 82: `grouped` is a local built anew at every call, whatever an
\* earlier call returned.
grouped_at_entry(previous) == [c \in Categories |-> <<>>]

\* Mutant: the first recognized token of an entry ends its loop.
MutGroupFirstTokenOnly(entries) ==
    LET RECURSIVE loop(_, _)
        loop(grouped, n) ==
            IF n > Len(entries) THEN grouped
            ELSE LET e == entries[n]
                     toks == IF Truthy(e.cats) THEN entry_categories(e.cats) ELSE <<>>
                     hits == {i \in 1..Len(toks) : InVocabulary(toks[i])}
                 IN  IF hits = {} THEN loop(grouped, n + 1)
                     ELSE LET i == CHOOSE h \in hits : \A g \in hits : h <= g
                          IN  loop([grouped EXCEPT ![KeyOf(toks[i])] = Append(@, e.text)],
                                   n + 1)
    IN  loop([c \in Categories |-> <<>>], 1)

group_entries_by_category(entries) ==
    group_loop([c \in Categories |-> <<>>], entries, 1)

\* ------------------------------------------------------------------------
\* Time and the entry store
\* ------------------------------------------------------------------------
\* Clock ticks in a calendar day, and the last tick the clock reaches.
TicksPerDay == 2
MaxNow == 2

\* timedelta(days=7) and timedelta(days=30) of the weekly and monthly windows.
WeeklyDays == 7
MonthlyDays == 30

Kinds == {"daily", "weekly", "monthly"}

\* The calendar date (a day number) of a clock value.
DateOf(t) == t \div TicksPerDay

\* Mutant: the daily window is the last 24 hours.
MutDailyRolling(kind, t) ==
    CASE kind = "daily" -> t - TicksPerDay
      [] kind = "weekly" -> t - WeeklyDays * TicksPerDay
      [] kind = "monthly" -> t - MonthlyDays * TicksPerDay

\* start_time of generate_daily_summary / _weekly_ / _monthly_ for `now`.
window_start(kind, t) ==
    CASE kind = "daily" -> DateOf(t) * TicksPerDay
      [] kind = "weekly" -> t - WeeklyDays * TicksPerDay
      [] kind = "monthly" -> t - MonthlyDays * TicksPerDay

\* Day number of the model's day 0, so that every date has two digits.
EpochDay == 40

Digits == <<"0", "1", "2", "3", "4", "5", "6", "7", "8", "9">>

\* datetime.isoformat() of the instant t: the zero-padded date, then the
\* part of the day after a "." -- left out when it is zero, as isoformat
\* leaves out the microseconds of a datetime that has none.
isoformat(t) ==
    LET d == DateOf(t) + EpochDay
        f == t % TicksPerDay
    IN  <<Digits[(d \div 10) + 1], Digits[(d % 10) + 1]>>
            \o (IF f = 0 THEN <<>> ELSE <<".", Digits[f + 1]>>)

\* Code point order of the characters of a timestamp: "." is before "0".
CharOrd(ch) ==
    IF ch = "." THEN 0
    ELSE 1 + CHOOSE i \in 1..Len(Digits) : Digits[i] = ch

\* a >= b of two TEXT values in SQLite: byte by byte, a proper prefix first.
RECURSIVE TextGE(_, _)
TextGE(a, b) ==
    IF b = <<>> THEN TRUE
    ELSE IF a = <<>> THEN FALSE
    ELSE IF Head(a) = Head(b) THEN TextGE(Tail(a), Tail(b))
    ELSE CharOrd(Head(a)) > CharOrd(Head(b))

\* Mutant: the range query leaves out the lower bound itself.
RECURSIVE MutSelectStrictlyAfter(_, _)
MutSelectStrictlyAfter(rows, start_time) ==
    IF rows = <<>> THEN <<>>
    ELSE IF TextGE(Head(rows).ts, isoformat(start_time))
              /\ Head(rows).ts # isoformat(start_time)
         THEN <<Head(rows)>> \o MutSelectStrictlyAfter(Tail(rows), start_time)
         ELSE MutSelectStrictlyAfter(Tail(rows), start_time)

\* Rows of the table selected by `WHERE timestamp >= ?` with the parameter
\* start_time.isoformat(), in table order.  The column is TEXT.
RECURSIVE select_since(_, _)
select_since(rows, start_time) ==
    IF rows = <<>> THEN <<>>
    ELSE IF TextGE(Head(rows).ts, isoformat(start_time))
         THEN <<Head(rows)>> \o select_since(Tail(rows), start_time)
         ELSE select_since(Tail(rows), start_time)

\* A value a callee hands back: its return value, or an exception that
\* leaves the callee.
Returned(v) == [raised |-> FALSE, val |-> v]
Raised == [raised |-> TRUE, val |-> <<>>]

\* Mutant: the query deletes the rows it has read.
MutSelectConsumes(rows, start_time, db) ==
    IF db = "error" THEN rows
    ELSE LET kept == {i \in 1..Len(rows) : ~TextGE(rows[i].ts, isoformat(start_time))}
         IN  IF kept = {} THEN <<>> ELSE <<rows[CHOOSE i \in kept : TRUE]>>

\* The table after query_entries_since: its one statement is a SELECT, and
\* leaving the `with` block commits a transaction that wrote nothing.
table_after_select(rows, start_time, db) == rows

\* Mutant: the query lets the store's error escape.
MutQueryRaises(rows, start_time, db) ==
    IF db = "error" THEN Raised ELSE Returned(select_since(rows, start_time))

\* query_entries_since: `db` is what sqlite does ("ok", or "error" for any
\* exception of connect/execute/fetchall, which lines 71-73 turn into []).
query_entries_since(rows, start_time, db) ==
    IF db = "error" THEN Returned(<<>>) ELSE Returned(select_since(rows, start_time))

\* ------------------------------------------------------------------------
\* Summarization driver
\* ------------------------------------------------------------------------
FALLBACK == "Summary generation failed."
NOT_PROVIDED == "Summary not provided in expected format."

\* f"No entries for {category}."
NoEntriesText(category) ==
    CASE category = "Work" -> "No entries for Work."
      [] category = "Health" -> "No entries for Health."
      [] category = "Relationships" -> "No entries for Relationships."
      [] category = "Purpose" -> "No entries for Purpose."

\* What openai.ChatCompletion.create does once the request is out: it raises
\* (transport error, API error, a timeout the library raises), or it returns
\* a reply whose content is
\*   "notjson"  text json.loads rejects,
\*   "array"    valid JSON that is no object (a list, a string, a number),
\*   "object"   a JSON object with the keys `keys`; `summary` is the value
\*              of its key "summary" when it has one.
SvcRaise == [kind |-> "raise", form |-> "", keys |-> {}, summary |-> ""]
SvcReply(form, keys, summary) ==
    [kind |-> "reply", form |-> form, keys |-> keys, summary |-> summary]

\* Texts the service writes.
SummaryTexts == {"S1", "S2"}

ServiceOutcomes ==
    {SvcRaise, SvcReply("notjson", {}, ""), SvcReply("array", {}, "")}
    \cup {SvcReply("object", {"summary"}, t) : t \in SummaryTexts}
    \cup {SvcReply("object", {"summary", "notes"}, "S1")}
    \cup {SvcReply("object", {"result"}, "")}

\* json.loads(response_text): raises on text that is no JSON.
json_loads(reply) ==
    IF reply.form = "notjson" THEN Raised ELSE Returned(reply)

\* data.get("summary", default): AttributeError unless data is a dict.
data_get_summary(data, default) ==
    IF data.form # "object" THEN Raised
    ELSE IF "summary" \in data.keys THEN Returned(data.summary)
         ELSE Returned(default)

\* Mutant: no try/except around the service call and the parsing.
MutDriverNoExcept(svc) ==
    IF svc.kind = "raise" THEN Raised
    ELSE LET data == json_loads(svc)
         IN  IF data.raised THEN Raised
             ELSE data_get_summary(data.val, NOT_PROVIDED)

\* Mutant: the except clause names the API's error only; a reply that is
\* no JSON raises past it.
MutDriverJsonErrorEscapes(svc) ==
    IF svc.kind = "raise" THEN Returned(FALLBACK)
    ELSE LET data == json_loads(svc)
         IN  IF data.raised THEN Raised
             ELSE LET got == data_get_summary(data.val, NOT_PROVIDED)
                  IN  IF got.raised THEN Returned(FALLBACK) ELSE got

\* Mutant: a missing key is looked up with data["summary"] (KeyError, caught).
MutDriverStrictKey(svc) ==
    IF svc.kind = "raise" THEN Returned(FALLBACK)
    ELSE LET data == json_loads(svc)
         IN  IF data.raised THEN Returned(FALLBACK)
             ELSE LET got == data_get_summary(data.val, FALLBACK)
                  IN  IF got.raised THEN Returned(FALLBACK) ELSE got

\* Lines 123-145 of generate_summary_for_category: the try block around the
\* service call, the parsing and the lookup; any exception gives FALLBACK.
summary_from_service(svc) ==
    IF svc.kind = "raise" THEN Returned(FALLBACK)
    ELSE LET data == json_loads(svc)
         IN  IF data.raised THEN Returned(FALLBACK)
             ELSE LET got == data_get_summary(data.val, NOT_PROVIDED)
                  IN  IF got.raised THEN Returned(FALLBACK) ELSE got

\* combined_text = "\n".join(texts): the texts in list order with one line
\* break between two of them.
RECURSIVE join_lines(_)
join_lines(texts) ==
    IF texts = <<>> THEN <<>>
    ELSE IF Len(texts) = 1 THEN <<texts[1]>>
    ELSE <<texts[1], "\n">> \o join_lines(Tail(texts))

\* Mutant: the builder asks again for a category whose summary is the
\* fallback string.
MutRetryOnFallback(i, value) == IF value = FALLBACK THEN i ELSE i + 1

\* The category loop of the builder moves on to the next category whatever
\* value generate_summary_for_category returned.
next_index(i, value) == i + 1

\* Mutant: the empty pool is sent to the service like any other.
MutNoShortCircuit(texts) == FALSE

\* Line 104: `if not texts` returns the canned text without any call.
short_circuits(texts) == texts = <<>>

\* ------------------------------------------------------------------------
\* Summary sink
\* ------------------------------------------------------------------------
\* Mutant: the destination is named without the job's kind.
MutFileNameNoKind(kind, date) == [kind |-> "daily", date |-> date]

\* A destination: f"{kind}_summary_{date:%Y%m%d}.json".
FileNameOf(kind, date) == [kind |-> kind, date |-> date]

NoFileName == [kind |-> "", date |-> -1]

\* Content of a destination: no file, a file cut short by a failed write
\* (open(filename, "w") has truncated it), or a whole JSON document.
Absent == [state |-> "absent", doc |-> <<>>]
Partial == [state |-> "partial", doc |-> <<>>]
Whole(doc) == [state |-> "whole", doc |-> doc]

\* Mutant: the sink lets its I/O error escape.
MutSaveRaises(fs, doc, filename, io) ==
    CASE io = "ok" -> Returned([fs EXCEPT ![filename] = Whole(doc)])
      [] io = "open_error" -> Raised
      [] io = "write_error" -> Raised

\* save_summary_to_file on the file system `fs`; `io` is what the file
\* system does: "ok", "open_error" (open raises, nothing is touched),
\* "write_error" (json.dump raises after open has truncated the file).
\* Lines 212-213 swallow both errors.  The value is the file system after.
save_summary_to_file(fs, doc, filename, io) ==
    CASE io = "ok" -> Returned([fs EXCEPT ![filename] = Whole(doc)])
      [] io = "open_error" -> Returned(fs)
      [] io = "write_error" -> Returned([fs EXCEPT ![filename] = Partial])

\* ------------------------------------------------------------------------
\* Manual trigger (bot.py)
\* ------------------------------------------------------------------------
\* What send_summary answers.  `via` is "button" (a callback query) or
\* "command" (/daily, /weekly, /monthly).  An Update always has the
\* attribute callback_query, None for a command, so line 371 raises for a
\* command and so does line 438 in the handler of line 434: the error
\* leaves send_summary.  For a button, generate_daily_summary and
\* generate_weekly_summary are names bot.py never binds (NameError, line
\* 434 answers), and bot.py's own generate_monthly_summary fails on the
\* unbound DB_NAME and returns its "Error" document.
send_summary(summary_type, via) ==
    IF via = "command" THEN "unhandled_error"
    ELSE CASE summary_type = "daily" -> "sorry_could_not_generate"
           [] summary_type = "weekly" -> "sorry_could_not_generate"
           [] summary_type = "monthly" -> "could_not_generate_monthly"

ManualIdle == [pc |-> "idle", kind |-> "", via |-> ""]

\* ------------------------------------------------------------------------
\* Log lines of a scheduled run
\* ------------------------------------------------------------------------
\* logging.error(f"Error querying entries: {e}")
ERROR_QUERYING == "Error querying entries"
\* logging.info(f"Summary saved to {filename}")
SUMMARY_SAVED == "Summary saved to"
\* logging.error(f"Error saving summary to file: {e}")
ERROR_SAVING == "Error saving summary to file"
\* logging.info("Daily summary generated and saved.") and its two siblings
GENERATED_AND_SAVED == "summary generated and saved."

\* ------------------------------------------------------------------------
\* Write path (bot.py, database.py)
\* ------------------------------------------------------------------------
\* sep.join(parts) for strings kept as sequences of characters.
RECURSIVE str_join(_, _)
str_join(sep, parts) ==
    IF Len(parts) = 0 THEN <<>>
    ELSE IF Len(parts) = 1 THEN parts[1]
    ELSE parts[1] \o sep \o str_join(sep, Tail(parts))

\* Mutant: the labels are joined with "; ".
MutJoinWithSemicolon(cat_list) ==
    str_join(<<";", " ">>, [i \in 1..Len(cat_list) |-> str_strip(cat_list[i])])

\* categories_str of lines 137-138: ", ".join([c.strip() for c in cat_list]).
categories_str(cat_list) ==
    str_join(<<",", " ">>, [i \in 1..Len(cat_list) |-> str_strip(cat_list[i])])

\* Mutant: a failed categorization files the entry under Work.
MutCategorizeDefaultsToWork(reply) ==
    IF reply.raised THEN <<"W", "o", "r", "k">> ELSE categories_str(reply.val)

\* The categories half of categorize_and_extract.  `reply` is Raised when
\* anything inside the try raised (the call failed, the answer was no JSON,
\* a label was no string), and otherwise Returned(cat_list) with the list
\* under "categories", [] when the key is missing.  The except of lines
\* 145-147 returns ("", "").
categorize_and_extract(reply) ==
    IF reply.raised THEN <<>> ELSE categories_str(reply.val)

\* The table after insert_transcription_with_ai at the instant
\* current_time; `db` is "ok" or "error".  The except of line 91 logs the
\* error and the row is not stored.
insert_transcription_with_ai(rows, transcription, categories, current_time, db) ==
    IF db = "error" THEN rows
    ELSE Append(rows, [text |-> transcription, cats |-> categories,
                       ts |-> isoformat(current_time)])

\* ------------------------------------------------------------------------
\* Migration to PostgreSQL (migrate_to_postgres.py)
\* ------------------------------------------------------------------------
\* The tables in the order migrate_data copies them.
MigTables == <<"transcriptions", "chat_conversations", "chat_messages">>

\* The PostgreSQL connection's view of the target: the rows committed and
\* the rows of the open transaction (psycopg2 opens one at the first
\* execute and ends it at commit() or rollback()).
pg_execute(db, row) == [db EXCEPT !.tx = Append(@, row)]

pg_commit(db) == [committed |-> db.committed \o db.tx, tx |-> <<>>]

\* Mutant: the except keeps what was inserted so far.
MutRollbackCommits(db) == [committed |-> db.committed \o db.tx, tx |-> <<>>]

pg_rollback(db) == [committed |-> db.committed, tx |-> <<>>]

\* pg_conn.close() with a transaction open discards it.
pg_close(db) == [committed |-> db.committed, tx |-> <<>>]

\* ------------------------------------------------------------------------
\* State
\* ------------------------------------------------------------------------
\* Rows of each chat table of the SQLite file.
MaxChatRows == 1
\* Messages the bot handles in one behaviour.
MaxIngest == 2
\* Scheduled runs started, and manual requests made, in one behaviour.
MaxRuns == 2
MaxManual == 1

VARIABLES
    now,          \* the wall clock (datetime.now()), in ticks
    store,        \* the transcriptions table, in insertion order
    files,        \* the summary destinations and their contents
    pc,           \* per job kind: where its scheduled run stands
    grouped,      \* per job kind: `grouped` of the running build
    idx,          \* per job kind: position of the category loop
    summary,      \* per job kind: the summary dictionary built so far
    calls,        \* per job kind and category: service calls made in the run
    failed,       \* per job kind: categories whose call took the except path
    replied,      \* per job kind: text the service returned, per category
    svcSeen,      \* per job kind: what the service did on the last call
    queryFailed,  \* per job kind: the run's store query failed
    filename,     \* per job kind: destination computed by the job
    saveFailed,   \* per job kind: the run's sink write failed
    build_now,    \* per job kind: `now` of the running build
    start_time,   \* per job kind: `start_time` of the running build
    entries,      \* per job kind: `entries` of the running build
    ops,          \* per job kind: the operations of the run so far, in order
    sent,         \* per job kind: `combined_text` of the last request
    started,      \* scheduled runs started so far
    fired,        \* per job kind: the date its cron trigger last fired
    log,          \* per job kind: log lines of its current or last run
    written,      \* per job kind: runs so far whose sink write succeeded
    man,          \* the bot's summary handler: the request being served
    manOut,       \* the bot's last answer to a summary request
    manCount,     \* manual requests made so far
    gEntries,     \* GroupSpec: the entries given to the aggregator
    gResult,      \* GroupSpec: the pools it returned
    gDone,        \* GroupSpec: the aggregator has been applied
    gAgain,       \* GroupSpec: the second application of the aggregator
    ingested,     \* the messages process_and_save_text has handled, in order
    mig           \* migrate_data: its position, connections and the target

runVars == <<grouped, idx, summary, calls, failed, replied, svcSeen,
             queryFailed, filename, saveFailed, build_now, start_time, entries,
             ops, sent>>
jobVars == <<pc, runVars, started, fired, log, written>>
manVars == <<man, manOut, manCount>>
groupVars == <<gEntries, gResult, gDone, gAgain>>
ingestVars == <<ingested>>
migVars == <<mig>>
sideVars == <<groupVars, ingestVars, migVars>>
vars == <<now, store, files, jobVars, manVars, sideVars>>

EmptyPools == [c \in Categories |-> <<>>]
NotAgain == [done |-> FALSE, pools |-> EmptyPools]
EmptyDict == [c \in {} |-> ""]
NoSvc == [kind |-> "none", form |-> "", keys |-> {}, summary |-> ""]

\* d[key] = value of a Python dict.
DictPut(d, key, value) ==
    [c \in DOMAIN d \cup {key} |-> IF c = key THEN value ELSE d[c]]

\* Mutant: the builder leaves out the categories that had no entries.
MutStoreOnlyWithEntries(d, category, value) ==
    IF value = NoEntriesText(category) THEN d ELSE DictPut(d, category, value)

\* daily_summary[category] = generate_summary_for_category(category, texts)
store_summary(d, category, value) == DictPut(d, category, value)

Dates == 0..DateOf(MaxNow)
FileNames == {FileNameOf(k, d) : k \in Kinds, d \in Dates}

\* ------------------------------------------------------------------------
\* Inputs: category fields and stores
\* ------------------------------------------------------------------------
Word(c) ==
    CASE c = "work" -> <<"w","o","r","k">>
      [] c = "health" -> <<"h","e","a","l","t","h">>
      [] c = "relationships" ->
            <<"r","e","l","a","t","i","o","n","s","h","i","p","s">>
      [] c = "purpose" -> <<"p","u","r","p","o","s","e">>
      [] c = "unknown" -> <<"u","n","k","n","o","w","n">>
      [] c = "workout" -> <<"w","o","r","k","o","u","t">>

\* A word in one of four letter cases: work, WORK, Work, wOrK.
Cased(w, style) ==
    [i \in 1..Len(w) |->
        CASE style = "lower" -> w[i]
          [] style = "upper" -> ch_upper(w[i])
          [] style = "title" -> IF i = 1 THEN ch_upper(w[i]) ELSE w[i]
          [] style = "mixed" -> IF i % 2 = 0 THEN ch_upper(w[i]) ELSE w[i]]

Styles == {"lower", "upper", "title", "mixed"}

\* Runs of whitespace of length 0..MaxPad.
RECURSIVE PadsOfLen(_)
PadsOfLen(n) ==
    IF n = 0 THEN {<<>>}
    ELSE {<<ch>> \o p : ch \in {" ", "\t"}, p \in PadsOfLen(n - 1)}

Pads == UNION {PadsOfLen(n) : n \in 0..MaxPad}

\* Every spelling of one category token: any case, any padding.
TokenVariants(w) ==
    {l \o Cased(Word(w), st) \o r : l \in Pads, r \in Pads, st \in Styles}

Comma == <<",">>

\* Every casing/spacing variant of "work, health".
WorkHealthVariants ==
    {a \o Comma \o b : a \in TokenVariants("work"), b \in TokenVariants("health")}

\* Category fields of the entries of the general inputs.
CatsChoices ==
    { PyNone, <<>>,
      Cased(Word("work"), "title"),
      <<" ">> \o Cased(Word("health"), "upper") \o <<" ">>,
      Cased(Word("unknown"), "title"),
      Cased(Word("workout"), "lower"),
      Cased(Word("work"), "title") \o Comma \o <<" ">> \o Cased(Word("work"), "lower"),
      Cased(Word("relationships"), "title") \o Comma \o <<" ">>
          \o Cased(Word("purpose"), "title"),
      Cased(Word("unknown"), "lower") \o Comma \o Cased(Word("purpose"), "mixed"),
      Cased(Word("health"), "lower") \o Comma \o Comma \o Cased(Word("work"), "upper"),
      <<"w","o","r"," ","k">>,
      Comma }

\* Labels the categorization service returns alone: Work in two cases,
\* Health with every padding, and a word outside the vocabulary.
SingleLabels ==
    { Cased(Word("work"), "upper"), Cased(Word("work"), "mixed"),
      Cased(Word("unknown"), "title") }
    \cup {l \o Cased(Word("health"), "title") \o r : l \in Pads, r \in Pads}

\* The lists of two labels it returns.
LabelPairs ==
    { <<Cased(Word("work"), "lower"), <<" ">> \o Cased(Word("health"), "title")>>,
      <<Cased(Word("purpose"), "upper") \o <<" ">>, Cased(Word("unknown"), "title")>>,
      <<Cased(Word("relationships"), "mixed"), <<"\t">> \o Cased(Word("purpose"), "lower")>>,
      <<Cased(Word("work"), "title"), Cased(Word("work"), "lower")>> }

\* What the categorization call can come to.
CatReplies ==
    {Raised, Returned(<<>>)}
    \cup {Returned(<<l>>) : l \in SingleLabels}
    \cup {Returned(p) : p \in LabelPairs}

\* The texts of the messages, one per message.
IngestTexts == <<"Finished the project report", "Talked with mom",
                 "Had a great workout today">>

\* A row of the table; `at` is the instant insert_transcription_with_ai
\* stored it, kept as datetime.now().isoformat().
Entry(text, cats, at) == [text |-> text, cats |-> cats, ts |-> isoformat(at)]

RECURSIVE SeqsUpTo(_, _)
SeqsUpTo(n, S) ==
    IF n = 0 THEN {<<>>}
    ELSE LET shorter == SeqsUpTo(n - 1, S)
         IN  shorter \cup {Append(q, x) : q \in {r \in shorter : Len(r) = n - 1}, x \in S}

\* Inputs of the aggregator in GroupSpec: entry lists of up to n entries.
GroupInputs(n) ==
    {<<Entry("Talked with mom", v, 0)>> : v \in WorkHealthVariants}
    \cup SeqsUpTo(n,
                  {Entry(t, v, 0) : t \in {"Had a great workout today",
                                           "Finished the project report"},
                                    v \in CatsChoices})

\* Stores of BuildSpec: the scenario of three entries made today, the same
\* with other spellings and an unrecognized entry, older entries, entries
\* made a week and a month before the first instants of the clock, three
\* entries of one category, no entry.
BuildStores ==
    { <<Entry("Had a great workout today", Cased(Word("health"), "title"), 0),
        Entry("Finished the project report", Cased(Word("work"), "title"), 0),
        Entry("Talked with mom",
              Cased(Word("relationships"), "title") \o Comma \o <<" ">>
                  \o Cased(Word("purpose"), "title"), 0)>>,
      <<Entry("Had a great workout today",
              Cased(Word("work"), "upper") \o Comma \o Cased(Word("health"), "lower"), 0),
        Entry("Talked with mom", Cased(Word("unknown"), "title"), 0),
        Entry("Finished the project report", PyNone, 0)>>,
      <<Entry("Finished the project report", Cased(Word("work"), "lower"),
              0 - (WeeklyDays + 1) * TicksPerDay),
        Entry("Talked with mom", <<" ">> \o Cased(Word("purpose"), "mixed"), 0 - 1)>>,
      <<Entry("Finished the project report", Cased(Word("work"), "title"),
              0 - WeeklyDays * TicksPerDay),
        Entry("Had a great workout today", Cased(Word("health"), "title"),
              1 - WeeklyDays * TicksPerDay),
        Entry("Talked with mom", Cased(Word("purpose"), "title"),
              0 - MonthlyDays * TicksPerDay)>>,
      <<Entry("Finished the project report", Cased(Word("work"), "title"), 0 - 1),
        Entry("Had a great workout today",
              Cased(Word("work"), "lower") \o Comma \o <<" ">>
                  \o Cased(Word("health"), "title"), 0),
        Entry("Talked with mom", Cased(Word("work"), "upper"), 0)>>,
      <<>> }

\* Stores of Spec: one entry made today, one unrecognized, one uncategorized.
SpecStores ==
    { <<Entry("Had a great workout today", Cased(Word("health"), "lower"), 0),
        Entry("Talked with mom", Cased(Word("unknown"), "title"), 0 - 1),
        Entry("Finished the project report", <<>>, 0)>> }

\* ------------------------------------------------------------------------
\* Initial states
\* ------------------------------------------------------------------------
InitRun ==
    /\ grouped = [k \in Kinds |-> EmptyPools]
    /\ idx = [k \in Kinds |-> 1]
    /\ summary = [k \in Kinds |-> EmptyDict]
    /\ calls = [k \in Kinds |-> [c \in Categories |-> 0]]
    /\ failed = [k \in Kinds |-> {}]
    /\ replied = [k \in Kinds |-> EmptyDict]
    /\ svcSeen = [k \in Kinds |-> NoSvc]
    /\ queryFailed = [k \in Kinds |-> FALSE]
    /\ filename = [k \in Kinds |-> NoFileName]
    /\ saveFailed = [k \in Kinds |-> FALSE]
    /\ build_now = [k \in Kinds |-> 0]
    /\ start_time = [k \in Kinds |-> 0]
    /\ entries = [k \in Kinds |-> <<>>]
    /\ ops = [k \in Kinds |-> <<>>]
    /\ sent = [k \in Kinds |-> <<>>]

InitCommon ==
    /\ now = 0
    /\ files = [f \in FileNames |-> Absent]
    /\ pc = [k \in Kinds |-> "idle"]
    /\ InitRun
    /\ started = 0
    /\ fired = [k \in Kinds |-> 0 - 1]
    /\ log = [k \in Kinds |-> {}]
    /\ written = [k \in Kinds |-> 0]
    /\ man = ManualIdle
    /\ manOut = "none"
    /\ manCount = 0
    /\ ingested = <<>>

InitNoGroup ==
    /\ gEntries = <<>>
    /\ gResult = EmptyPools
    /\ gDone = FALSE
    /\ gAgain = NotAgain

\* migrate_data before it is called, for a SQLite file with the chat
\* tables `chat` and a target already holding `committed`.
MigStart(chat, committed) ==
    [pc |-> "start", chat |-> chat, sqlite_open |-> FALSE, pg_open |-> FALSE,
     entered |-> FALSE, t |-> 1, rows |-> <<>>, r |-> 1,
     pg |-> [committed |-> committed, tx |-> <<>>], before |-> committed,
     inserted |-> 0, error |-> FALSE]

InitNoMig ==
    mig = MigStart([chat_conversations |-> 0, chat_messages |-> 0], <<>>)

Init == InitCommon /\ InitNoGroup /\ InitNoMig /\ store \in SpecStores

BuildInit == InitCommon /\ InitNoGroup /\ InitNoMig /\ store \in BuildStores

IngestInit == InitCommon /\ InitNoGroup /\ InitNoMig /\ store = <<>>

\* The SQLite file holds one of the stores and up to MaxChatRows rows in
\* each chat table; the target is empty or holds a row of an earlier load.
MigInit ==
    /\ InitCommon
    /\ InitNoGroup
    /\ store \in BuildStores
    /\ \E nc \in 0..MaxChatRows, nm \in 0..MaxChatRows :
       \E committed \in {<<>>, <<[table |-> "transcriptions", id |-> 0]>>} :
           mig = MigStart([chat_conversations |-> nc, chat_messages |-> nm], committed)

GroupInit ==
    /\ InitCommon
    /\ store = <<>>
    /\ gEntries \in GroupInputs(MaxEntries)
    /\ gResult = EmptyPools
    /\ gDone = FALSE
    /\ gAgain = NotAgain
    /\ InitNoMig

\* ------------------------------------------------------------------------
\* The scheduled jobs (schedule.py) and the window builders they run
\* ------------------------------------------------------------------------
\* A run stands at: "idle" (no run), "query" (triggered, before the store
\* query), "summarize" (in the category loop, or past it when idx is beyond
\* the vocabulary), "calling" (inside the service call), "save" (destination
\* computed, before the sink write), "finish" (sink returned, before the log
\* line and the return), "raised" (an exception has left the job function).
Running(k) == pc[k] \notin {"idle", "raised"}

ResetRun(k) ==
    /\ grouped' = [grouped EXCEPT ![k] = EmptyPools]
    /\ idx' = [idx EXCEPT ![k] = 1]
    /\ summary' = [summary EXCEPT ![k] = EmptyDict]
    /\ calls' = [calls EXCEPT ![k] = [c \in Categories |-> 0]]
    /\ failed' = [failed EXCEPT ![k] = {}]
    /\ replied' = [replied EXCEPT ![k] = EmptyDict]
    /\ svcSeen' = [svcSeen EXCEPT ![k] = NoSvc]
    /\ queryFailed' = [queryFailed EXCEPT ![k] = FALSE]
    /\ filename' = [filename EXCEPT ![k] = NoFileName]
    /\ saveFailed' = [saveFailed EXCEPT ![k] = FALSE]
    /\ build_now' = [build_now EXCEPT ![k] = 0]
    /\ start_time' = [start_time EXCEPT ![k] = 0]
    /\ entries' = [entries EXCEPT ![k] = <<>>]
    /\ ops' = [ops EXCEPT ![k] = <<>>]
    /\ sent' = [sent EXCEPT ![k] = <<>>]

\* The clock advances.
Tick ==
    /\ now < MaxNow
    /\ now' = now + 1
    /\ UNCHANGED <<store, files, jobVars, manVars, sideVars>>

\* The cron trigger of scheduler.add_job fires.  add_job is called without
\* max_instances, so the scheduler starts no second instance of a job that
\* is still running.  Each trigger names one time of the day (hour=9,
\* minute=0), so a job is triggered at most once on a calendar date.
CronFire(k) ==
    /\ pc[k] = "idle"
    /\ started < MaxRuns
    /\ fired[k] # DateOf(now)
    /\ pc' = [pc EXCEPT ![k] = "query"]
    /\ started' = started + 1
    /\ fired' = [fired EXCEPT ![k] = DateOf(now)]
    /\ log' = [log EXCEPT ![k] = {}]
    /\ UNCHANGED <<now, store, files, runVars, written, manVars, sideVars>>

\* generate_*_summary up to the category loop: now, start_time, the query,
\* the grouping.
Query(k) ==
    /\ pc[k] = "query"
    /\ build_now' = [build_now EXCEPT ![k] = now]
    /\ ops' = [ops EXCEPT ![k] = Append(@, "query")]
    /\ start_time' = [start_time EXCEPT ![k] = window_start(k, now)]
    /\ \E db \in {"ok", "error"} :
         LET r == query_entries_since(store, window_start(k, now), db)
         IN  /\ store' = table_after_select(store, window_start(k, now), db)
             /\ log' = [log EXCEPT
                          ![k] = IF db = "error" THEN @ \cup {ERROR_QUERYING} ELSE @]
             /\ IF r.raised
                THEN /\ pc' = [pc EXCEPT ![k] = "raised"]
                     /\ UNCHANGED <<entries, grouped, queryFailed>>
                ELSE /\ pc' = [pc EXCEPT ![k] = "summarize"]
                     /\ entries' = [entries EXCEPT ![k] = r.val]
                     /\ grouped' = [grouped EXCEPT ![k] = group_entries_by_category(r.val)]
                     /\ queryFailed' = [queryFailed EXCEPT ![k] = (db = "error")]
    /\ UNCHANGED <<now, files, idx, summary, calls, failed, replied, svcSeen,
                   filename, saveFailed, sent, started, fired, written, manVars, sideVars>>

\* One turn of the category loop up to the service call:
\* generate_summary_for_category returns the canned text for an empty pool,
\* and otherwise builds the prompt and sends the request.
Summarize(k) ==
    /\ pc[k] = "summarize"
    /\ idx[k] <= Len(ALLOWED_CATEGORIES)
    /\ LET category == ALLOWED_CATEGORIES[idx[k]]
           texts == grouped[k][category]
       IN  IF short_circuits(texts)
           THEN /\ summary' = [summary EXCEPT
                                 ![k] = store_summary(@, category, NoEntriesText(category))]
                /\ idx' = [idx EXCEPT ![k] = next_index(@, NoEntriesText(category))]
                /\ ops' = [ops EXCEPT ![k] = Append(@, category)]
                /\ UNCHANGED <<pc, calls, sent>>
           ELSE /\ pc' = [pc EXCEPT ![k] = "calling"]
                /\ calls' = [calls EXCEPT ![k][category] = @ + 1]
                /\ sent' = [sent EXCEPT ![k] = join_lines(texts)]
                /\ UNCHANGED <<summary, idx, ops>>
    /\ svcSeen' = [svcSeen EXCEPT ![k] = NoSvc]
    /\ UNCHANGED <<now, store, files, grouped, failed, replied, queryFailed,
                   filename, saveFailed, build_now, start_time, entries,
                   started, fired, log, written, manVars, sideVars>>

\* The except path of the driver is taken for this service outcome.
TakesExceptPath(svc) ==
    svc.kind = "raise" \/ svc.form \in {"notjson", "array"}

\* The service call returns or raises; the rest of
\* generate_summary_for_category stores the category's summary.
ServiceReturns(k) ==
    /\ pc[k] = "calling"
    /\ \E svc \in ServiceOutcomes :
         LET category == ALLOWED_CATEGORIES[idx[k]]
             r == summary_from_service(svc)
         IN  /\ svcSeen' = [svcSeen EXCEPT ![k] = svc]
             /\ failed' = [failed EXCEPT
                             ![k] = IF TakesExceptPath(svc) THEN @ \cup {category} ELSE @]
             /\ replied' = [replied EXCEPT
                              ![k] = IF svc.form = "object" /\ "summary" \in svc.keys
                                     THEN DictPut(@, category, svc.summary) ELSE @]
             /\ IF r.raised
                THEN /\ pc' = [pc EXCEPT ![k] = "raised"]
                     /\ UNCHANGED <<summary, idx, ops>>
                ELSE /\ pc' = [pc EXCEPT ![k] = "summarize"]
                     /\ summary' = [summary EXCEPT ![k] = store_summary(@, category, r.val)]
                     /\ idx' = [idx EXCEPT ![k] = next_index(@, r.val)]
                     /\ ops' = [ops EXCEPT
                                  ![k] = IF next_index(idx[k], r.val) = idx[k]
                                         THEN @ ELSE Append(@, category)]
    /\ UNCHANGED <<now, store, files, grouped, calls, queryFailed, filename,
                   saveFailed, build_now, start_time, entries, sent,
                   started, fired, log, written, manVars, sideVars>>

\* The builder returns its dictionary; the job computes the destination
\* from datetime.now().
FileName(k) ==
    /\ pc[k] = "summarize"
    /\ idx[k] > Len(ALLOWED_CATEGORIES)
    /\ pc' = [pc EXCEPT ![k] = "save"]
    /\ filename' = [filename EXCEPT ![k] = FileNameOf(k, DateOf(now))]
    /\ svcSeen' = [svcSeen EXCEPT ![k] = NoSvc]
    /\ UNCHANGED <<now, store, files, grouped, idx, summary, calls, failed, replied,
                   queryFailed, saveFailed, build_now, start_time, entries, ops, sent,
                   started, fired, log, written, manVars, sideVars>>

\* The job calls the sink.
Save(k) ==
    /\ pc[k] = "save"
    /\ \E io \in {"ok", "open_error", "write_error"} :
         LET r == save_summary_to_file(files, summary[k], filename[k], io)
         IN  /\ ops' = [ops EXCEPT ![k] = Append(@, "write")]
             /\ log' = [log EXCEPT
                          ![k] = @ \cup {IF io = "ok" THEN SUMMARY_SAVED ELSE ERROR_SAVING}]
             /\ written' = [written EXCEPT ![k] = IF io = "ok" THEN @ + 1 ELSE @]
             /\ IF r.raised
                THEN /\ pc' = [pc EXCEPT ![k] = "raised"]
                     /\ UNCHANGED <<files, saveFailed>>
                ELSE /\ pc' = [pc EXCEPT ![k] = "finish"]
                     /\ files' = r.val
                     /\ saveFailed' = [saveFailed EXCEPT ![k] = (io # "ok")]
    /\ UNCHANGED <<now, store, grouped, idx, summary, calls, failed, replied, svcSeen,
                   queryFailed, filename, build_now, start_time, entries, sent,
                   started, fired, manVars, sideVars>>

\* The job logs "... summary generated and saved." and returns.
Finish(k) ==
    /\ pc[k] = "finish"
    /\ pc' = [pc EXCEPT ![k] = "idle"]
    /\ ResetRun(k)
    /\ log' = [log EXCEPT ![k] = @ \cup {GENERATED_AND_SAVED}]
    /\ UNCHANGED <<now, store, files, started, fired, written, manVars, sideVars>>

\* ------------------------------------------------------------------------
\* The manual trigger (bot.py)
\* ------------------------------------------------------------------------
\* A summary button or command arrives; the dispatcher hands it to
\* send_summary (it serves one update at a time).
ManualTrigger(k, via) ==
    /\ man.pc = "idle"
    /\ manCount < MaxManual
    /\ man' = [pc |-> "serving", kind |-> k, via |-> via]
    /\ manCount' = manCount + 1
    /\ UNCHANGED <<now, store, files, jobVars, manOut, sideVars>>

\* send_summary runs to its end.
ManualServe ==
    /\ man.pc = "serving"
    /\ manOut' = send_summary(man.kind, man.via)
    /\ man' = ManualIdle
    /\ UNCHANGED <<now, store, files, jobVars, manCount, sideVars>>

\* ------------------------------------------------------------------------
\* The bot stores a message (bot.py)
\* ------------------------------------------------------------------------
\* process_and_save_text on the next message: the categorization call, then
\* the insert with the string it gave.  `ingested` keeps, per message, the
\* text, what the categorization call came to, the string handed to the
\* insert and whether the row was stored.
Ingest ==
    /\ Len(ingested) < MaxIngest
    /\ Len(ingested) < Len(IngestTexts)
    /\ \E reply \in CatReplies, db \in {"ok", "error"} :
         LET text == IngestTexts[Len(ingested) + 1]
             cats == categorize_and_extract(reply)
         IN  /\ store' = insert_transcription_with_ai(store, text, cats, now, db)
             /\ ingested' = Append(ingested,
                                [text |-> text, reply |-> reply,
                                 categories |-> cats, stored |-> (db = "ok")])
    /\ UNCHANGED <<now, files, jobVars, manVars, groupVars, migVars>>

\* ------------------------------------------------------------------------
\* migrate_data (migrate_to_postgres.py)
\* ------------------------------------------------------------------------
\* mig.pc is "start" (not called yet), "read" (before the SELECT of table
\* mig.t), "insert" (in the row loop of table mig.t), "commit" (before line
\* 88), "except" (an exception of the try body is caught), "finally",
\* "returned" or "raised" (an exception has left migrate_data).
\*
\* The rows of table MigTables[t] of the SQLite file; the transcriptions
\* table is `store`.
SourceRows(t) ==
    LET n == IF t = 1 THEN Len(store) ELSE mig.chat[MigTables[t]]
    IN  [i \in 1..n |-> [table |-> MigTables[t], id |-> i]]

\* Lines 23-29: the two connections, opened before the try.
MigConnect ==
    /\ mig.pc = "start"
    /\ \E lite \in {"ok", "error"}, pgc \in {"ok", "error"} :
         mig' = IF lite = "error"
                THEN [mig EXCEPT !.pc = "raised", !.error = TRUE]
                ELSE IF pgc = "error"
                THEN [mig EXCEPT !.pc = "raised", !.error = TRUE,
                                 !.sqlite_open = TRUE]
                ELSE [mig EXCEPT !.pc = "read", !.t = 1, !.entered = TRUE,
                                 !.sqlite_open = TRUE, !.pg_open = TRUE]
    /\ UNCHANGED <<now, store, files, jobVars, manVars, groupVars, ingestVars>>

\* SELECT * FROM <table> and fetchall (lines 34-35, 55-56, 72-73).
MigRead ==
    /\ mig.pc = "read"
    /\ \E db \in {"ok", "error"} :
         mig' = IF db = "error"
                THEN [mig EXCEPT !.pc = "except"]
                ELSE [mig EXCEPT !.pc = "insert", !.rows = SourceRows(mig.t), !.r = 1]
    /\ UNCHANGED <<now, store, files, jobVars, manVars, groupVars, ingestVars>>

\* One turn of a row loop: the INSERT of the next row.
MigInsert ==
    /\ mig.pc = "insert"
    /\ mig.r <= Len(mig.rows)
    /\ \E db \in {"ok", "error"} :
         mig' = IF db = "error"
                THEN [mig EXCEPT !.pc = "except"]
                ELSE [mig EXCEPT !.pg = pg_execute(@, mig.rows[mig.r]),
                                 !.r = @ + 1, !.inserted = @ + 1]
    /\ UNCHANGED <<now, store, files, jobVars, manVars, groupVars, ingestVars>>

\* A row loop ends: on to the next table, or to the commit.
MigLoopEnds ==
    /\ mig.pc = "insert"
    /\ mig.r > Len(mig.rows)
    /\ mig' = IF mig.t < Len(MigTables)
              THEN [mig EXCEPT !.pc = "read", !.t = @ + 1]
              ELSE [mig EXCEPT !.pc = "commit"]
    /\ UNCHANGED <<now, store, files, jobVars, manVars, groupVars, ingestVars>>

\* pg_conn.commit() (line 88).
MigCommit ==
    /\ mig.pc = "commit"
    /\ \E db \in {"ok", "error"} :
         mig' = IF db = "error"
                THEN [mig EXCEPT !.pc = "except"]
                ELSE [mig EXCEPT !.pc = "finally", !.pg = pg_commit(@)]
    /\ UNCHANGED <<now, store, files, jobVars, manVars, groupVars, ingestVars>>

\* The except of lines 91-94: rollback, log, raise.  A rollback that raises
\* leaves the transaction to the close of the finally.
MigExcept ==
    /\ mig.pc = "except"
    /\ \E db \in {"ok", "error"} :
         mig' = [mig EXCEPT !.pc = "finally", !.error = TRUE,
                            !.pg = IF db = "ok" THEN pg_rollback(@) ELSE @]
    /\ UNCHANGED <<now, store, files, jobVars, manVars, groupVars, ingestVars>>

\* The finally of lines 95-97, then the return or the exception.
MigFinally ==
    /\ mig.pc = "finally"
    /\ mig' = [mig EXCEPT !.pc = IF mig.error THEN "raised" ELSE "returned",
                          !.sqlite_open = FALSE, !.pg_open = FALSE,
                          !.pg = pg_close(@)]
    /\ UNCHANGED <<now, store, files, jobVars, manVars, groupVars, ingestVars>>

\* ------------------------------------------------------------------------
\* The aggregator applied to an input (GroupSpec)
\* ------------------------------------------------------------------------
GroupApply ==
    /\ ~gDone
    /\ gResult' = group_entries_by_category(gEntries)
    /\ gDone' = TRUE
    /\ UNCHANGED <<now, store, files, jobVars, manVars, gEntries, gAgain, ingestVars,
                   migVars>>

\* The aggregator is called a second time on the same list.
GroupAgain ==
    /\ gDone
    /\ ~gAgain.done
    /\ gAgain' = [done |-> TRUE,
                  pools |-> group_loop(grouped_at_entry(gResult), gEntries, 1)]
    /\ UNCHANGED <<now, store, files, jobVars, manVars, gEntries, gResult, gDone,
                   ingestVars, migVars>>

\* ------------------------------------------------------------------------
\* Specifications
\* ------------------------------------------------------------------------
JobStep(k) ==
    Query(k) \/ Summarize(k) \/ FileName(k) \/ Save(k) \/ Finish(k)

\* The scheduler process: the three jobs and the clock.
Next ==
    \/ Tick
    \/ \E k \in Kinds : CronFire(k)
    \/ \E k \in Kinds : Query(k)
    \/ \E k \in Kinds : Summarize(k)
    \/ \E k \in Kinds : ServiceReturns(k)
    \/ \E k \in Kinds : FileName(k)
    \/ \E k \in Kinds : Save(k)
    \/ \E k \in Kinds : Finish(k)

Spec == Init /\ [][Next]_vars

\* The jobs one run at a time: a trigger fires when no job is running.
SoloRun(k) == (\A j \in Kinds : pc[j] = "idle") /\ CronFire(k)

SeqNext ==
    \/ Tick
    \/ \E k \in Kinds : SoloRun(k)
    \/ \E k \in Kinds : Query(k)
    \/ \E k \in Kinds : Summarize(k)
    \/ \E k \in Kinds : ServiceReturns(k)
    \/ \E k \in Kinds : FileName(k)
    \/ \E k \in Kinds : Save(k)
    \/ \E k \in Kinds : Finish(k)

SeqSpec == Init /\ [][SeqNext]_vars

\* The code's own steps are taken when they can be (a job runs on a worker
\* thread of its own); the service is under no obligation to answer.
FairSeqSpec == SeqSpec /\ \A k \in Kinds : WF_vars(JobStep(k))

\* As FairSeqSpec, with a service that answers (or fails) every call.
LiveSeqSpec == FairSeqSpec /\ \A k \in Kinds : WF_vars(ServiceReturns(k))

\* One scheduled run of one job, from its trigger to its return.
FirstRun(k) == started = 0 /\ CronFire(k)

BuildNext ==
    \/ Tick
    \/ \E k \in Kinds : FirstRun(k)
    \/ \E k \in Kinds : Query(k)
    \/ \E k \in Kinds : Summarize(k)
    \/ \E k \in Kinds : ServiceReturns(k)
    \/ \E k \in Kinds : FileName(k)
    \/ \E k \in Kinds : Save(k)
    \/ \E k \in Kinds : Finish(k)

BuildSpec == BuildInit /\ [][BuildNext]_vars

\* A scheduled run in the scheduler process side by side with the bot
\* process serving summary requests.
BotNext ==
    \/ BuildNext
    \/ \E k \in Kinds, via \in {"button", "command"} : ManualTrigger(k, via)
    \/ ManualServe

BotSpec == Init /\ [][BotNext]_vars

\* The bot stores messages; a window build reads the table.
IngestNext ==
    \/ Tick
    \/ Ingest
    \/ \E k \in Kinds : FirstRun(k)
    \/ \E k \in Kinds : Query(k)

IngestSpec == IngestInit /\ [][IngestNext]_vars

\* One call of migrate_data.
MigNext ==
    \/ MigConnect
    \/ MigRead
    \/ MigInsert
    \/ MigLoopEnds
    \/ MigCommit
    \/ MigExcept
    \/ MigFinally

MigSpec == MigInit /\ [][MigNext]_vars

\* The aggregator on every input.
GroupNext == GroupApply \/ GroupAgain

GroupSpec == GroupInit /\ [][GroupNext]_vars

\* ========================================================================
\* Properties
\* ========================================================================
\* The run of kind k has left the builder: its dictionary is the returned one.
BuildReturned(k) == pc[k] \in {"save", "finish"}

\* The category whose summary the last service call of k's run produced.
LastCategory(k) == ALLOWED_CATEGORIES[idx[k] - 1]

\* The service has just answered k's run with `svc`-like outcome.
JustAnswered(k) == pc[k] = "summarize" /\ svcSeen[k].kind # "none"

\* C1: the mapping a window build returns has exactly the key set {Work,
\* Health, Relationships, Purpose}, for every window kind, whichever
\* categories had entries and whichever store or service calls failed; while
\* it is being built it never has a key outside the vocabulary.
C1_KeysExactlyVocabulary ==
    \A k \in Kinds :
        /\ DOMAIN summary[k] \subseteq {"Work", "Health", "Relationships", "Purpose"}
        /\ BuildReturned(k) =>
              DOMAIN summary[k] = {"Work", "Health", "Relationships", "Purpose"}

\* A build has returned after a failed call, with a category without entries.
C1_Witness ==
    \E k \in Kinds :
        /\ pc[k] = "save"
        /\ failed[k] # {}
        /\ \E c \in Categories : grouped[k][c] = <<>>

\* An entry has a comma-separated token that is c once trimmed and title-cased.
HasToken(e, c) ==
    /\ e.cats # PyNone
    /\ \E i \in 1..Len(str_split(e.cats)) :
          str_title(str_strip(str_split(e.cats)[i])) = KeyChars(c)

PoolTexts(pools, c) == {pools[c][i] : i \in 1..Len(pools[c])}

\* C2: for every entry list and every vocabulary category c, an entry's text
\* is in pool c if and only if one of its comma-separated tokens, trimmed
\* and title-cased, equals c; entries with an empty or absent category
\* field or with only unrecognized tokens are in no pool; the pools are
\* exactly those of the vocabulary.
C2_PoolMembership ==
    gDone =>
        /\ DOMAIN gResult = Categories
        /\ \A c \in Categories :
              PoolTexts(gResult, c) =
                  {gEntries[n].text : n \in {m \in 1..Len(gEntries) : HasToken(gEntries[m], c)}}

\* Two entries were grouped: one recognized in a pool, one with an
\* unrecognized token in none.
C2_Witness ==
    /\ gDone
    /\ Len(gEntries) = 2
    /\ gEntries[1].cats = <<" ","H","E","A","L","T","H"," ">>
    /\ gEntries[2].cats = <<"U","n","k","n","o","w","n">>
    /\ gEntries[1].text # gEntries[2].text
    /\ gResult["Health"] = <<gEntries[1].text>>
    /\ \A c \in Categories : gEntries[2].text \notin PoolTexts(gResult, c)

\* C3: a single entry whose category field is any casing/spacing variant of
\* "work, health" puts its text in the Work pool and in the Health pool and
\* in no other; a single entry with category "Unknown" is in no pool.
C3_CaseAndSpaceInsensitive ==
    (gDone /\ Len(gEntries) = 1) =>
        /\ gEntries[1].cats \in WorkHealthVariants =>
              /\ gResult["Work"] = <<gEntries[1].text>>
              /\ gResult["Health"] = <<gEntries[1].text>>
              /\ gResult["Relationships"] = <<>>
              /\ gResult["Purpose"] = <<>>
        /\ gEntries[1].cats = <<"U","n","k","n","o","w","n">> =>
              \A c \in Categories : gResult[c] = <<>>

\* The entry tagged " WORK,\thEaLtH" was grouped into Work and Health.
C3_Witness ==
    /\ gDone
    /\ Len(gEntries) = 1
    /\ gEntries[1].cats = <<" ","W","O","R","K",",","\t","h","E","a","L","t","H">>
    /\ gResult["Work"] = <<"Talked with mom">>
    /\ gResult["Health"] = <<"Talked with mom">>

\* C4: a category with an empty pool gets exactly "No entries for
\* <category>." and no call to the summarization service is made for it.
C4_EmptyPoolNoCall ==
    \A k \in Kinds : \A c \in Categories :
        grouped[k][c] = <<>> =>
            /\ calls[k][c] = 0
            /\ c \in DOMAIN summary[k] =>
                  summary[k][c] =
                      CASE c = "Work" -> "No entries for Work."
                        [] c = "Health" -> "No entries for Health."
                        [] c = "Relationships" -> "No entries for Relationships."
                        [] c = "Purpose" -> "No entries for Purpose."

\* A build is through its loop with an empty pool and a pool that was sent
\* to the service.
C4_Witness ==
    \E k \in Kinds :
        /\ pc[k] = "save"
        /\ grouped[k]["Relationships"] = <<>>
        /\ summary[k]["Relationships"] = "No entries for Relationships."
        /\ calls[k]["Work"] = 1

\* C5: generate_summary_for_category never lets an exception reach its
\* caller: when the service call raises or the reply is no JSON, the
\* category's summary is exactly "Summary generation failed.".
C5_DriverNeverRaises ==
    \A k \in Kinds :
        /\ pc[k] # "raised"
        /\ (JustAnswered(k)
              /\ (svcSeen[k].kind = "raise" \/ svcSeen[k].form = "notjson"))
           => summary[k][LastCategory(k)] = "Summary generation failed."

\* The service has raised on one call and sent text that is no JSON on the
\* next, and the loop goes on.
C5_Witness ==
    \E k \in Kinds :
        /\ JustAnswered(k)
        /\ svcSeen[k].form = "notjson"
        /\ idx[k] = 3
        /\ summary[k]["Work"] = "Summary generation failed."
        /\ summary[k]["Health"] = "Summary generation failed."
        /\ failed[k] = {"Work", "Health"}

\* The reply is valid JSON and is no object with a key "summary".
NotTheEnvelope(svc) ==
    /\ svc.kind = "reply"
    /\ svc.form \in {"array", "object"}
    /\ ~(svc.form = "object" /\ "summary" \in svc.keys)

C7_FailureIsolation ==
    \A k \in Kinds :
        /\ failed[k] # {} => pc[k] # "raised"
        /\ \A c \in failed[k] :
              c \in DOMAIN summary[k] /\ summary[k][c] = "Summary generation failed."
        /\ \A c \in DOMAIN replied[k] :
              c \in DOMAIN summary[k] /\ summary[k][c] = replied[k][c]
        /\ BuildReturned(k) => DOMAIN summary[k] = Categories
        /\ (pc[k] = "finish" /\ ~saveFailed[k]) =>
              files[filename[k]] = [state |-> "whole", doc |-> summary[k]]

\* The service failed for Work only; the run is past the sink, which holds
\* the fallback for Work and the service's texts for the other three.
C7_Witness ==
    \E k \in Kinds :
        /\ pc[k] = "finish"
        /\ ~saveFailed[k]
        /\ failed[k] = {"Work"}
        /\ DOMAIN replied[k] = {"Health", "Relationships", "Purpose"}
        /\ files[filename[k]].state = "whole"
        /\ files[filename[k]].doc["Work"] = "Summary generation failed."
        /\ files[filename[k]].doc["Health"] = "S1"
        /\ files[filename[k]].doc["Purpose"] = "S2"

\* C8 as stated: every started build reaches its end and the job returns
\* to Idle, also when the summarization service never replies.
C8_BuildAlwaysEnds ==
    \A k \in Kinds : (pc[k] # "idle") ~> (pc[k] = "idle")

\* C9 as stated: a request for kind K that arrives while a run of kind K is
\* Running is rejected at once with a busy signal: it is never served side
\* by side with that run.
C9_NoReentrantRun ==
    \A k \in Kinds :
        Running(k) => ~(man.pc = "serving" /\ man.kind = k)

\* A store query, a service call or the sink write of k's run has failed.
RunHadFailure(k) == queryFailed[k] \/ failed[k] # {} \/ saveFailed[k]

C11_WriteFailureReported ==
    \A k \in Kinds :
        "Error saving summary to file" \in log[k]
            => "summary generated and saved." \notin log[k]

\* C12 as stated: the sink write is all-or-nothing: a destination holds a
\* complete document or no document, never an empty or partly written one.
C12_AllOrNothing ==
    \A k \in Kinds : \A d \in 0..(MaxNow \div TicksPerDay) :
        files[[kind |-> k, date |-> d]].state \in {"absent", "whole"}

\* The complete documents of kind k at the destinations.
WholeDocsOf(k) ==
    {d \in 0..(MaxNow \div TicksPerDay) : files[[kind |-> k, date |-> d]].state = "whole"}

\* No write of kind k has been cut short.
NoneCutShort(k) ==
    \A d \in 0..(MaxNow \div TicksPerDay) : files[[kind |-> k, date |-> d]].state # "partial"

\* C13 as stated: every run leaves its own document: the number of persisted
\* documents of a kind is the number of its runs whose sink write succeeded
\* (looked at when no write of that kind has failed half-way).
C13_OneDocumentPerRun ==
    \A k \in Kinds :
        NoneCutShort(k) => Cardinality(WholeDocsOf(k)) = written[k]

\* C14: runs write to disjoint destinations across kinds and dates, under
\* any interleaving of the three jobs: a run of kind K names its destination
\* by K and by the date at which it names it, a step changes the destination
\* keyed by (K, D) only when it is the sink write of a run of kind K that
\* named (K, D), and that write changes no other destination.
C14_DisjointDestinations ==
    [][/\ \A k \in Kinds :
             (pc[k] = "summarize" /\ pc'[k] = "save") =>
                 filename'[k] = [kind |-> k, date |-> now \div TicksPerDay]
       /\ \A f \in DOMAIN files :
             files'[f] # files[f] =>
                 /\ pc[f.kind] = "save" /\ pc'[f.kind] = "finish"
                 /\ filename[f.kind] = f
                 /\ \A g \in DOMAIN files : g # f => files'[g] = files[g]
      ]_vars

\* A daily and a weekly run, side by side, have each written their document
\* of the same date; the two documents differ.
C14_Witness ==
    /\ pc["daily"] = "finish"
    /\ pc["weekly"] = "finish"
    /\ files[[kind |-> "daily", date |-> 0]].state = "whole"
    /\ files[[kind |-> "weekly", date |-> 0]].state = "whole"
    /\ files[[kind |-> "daily", date |-> 0]] # files[[kind |-> "weekly", date |-> 0]]

\* The store query of k's current run has failed.
QueryHasFailed(k) == "Error querying entries" \in log[k] /\ pc[k] # "idle"

\* C15: a failed entry-store query does not abort the window build: the
\* query returns an empty sequence, no summarization call is made, every
\* category the loop has reached maps to its "No entries for <category>."
\* text, and the build returns with all four of them.
C15_FailedQueryAllNoEntries ==
    \A k \in Kinds :
        QueryHasFailed(k) =>
            /\ pc[k] \notin {"raised", "calling"}
            /\ entries[k] = <<>>
            /\ \A c \in {"Work", "Health", "Relationships", "Purpose"} : calls[k][c] = 0
            /\ "Work" \in DOMAIN summary[k] => summary[k]["Work"] = "No entries for Work."
            /\ "Health" \in DOMAIN summary[k] => summary[k]["Health"] = "No entries for Health."
            /\ "Relationships" \in DOMAIN summary[k] =>
                  summary[k]["Relationships"] = "No entries for Relationships."
            /\ "Purpose" \in DOMAIN summary[k] => summary[k]["Purpose"] = "No entries for Purpose."
            /\ pc[k] \in {"save", "finish"} =>
                  DOMAIN summary[k] = {"Work", "Health", "Relationships", "Purpose"}

\* The query of a daily build failed over a store that holds three entries
\* of today; the build has returned.
C15_Witness ==
    /\ pc["daily"] = "save"
    /\ QueryHasFailed("daily")
    /\ Len(store) = 3
    /\ \A i \in 1..3 : store[i].ts = isoformat(0)
    /\ build_now["daily"] = 0
    /\ DOMAIN summary["daily"] = {"Work", "Health", "Relationships", "Purpose"}

\* C16 as stated: the result of a window build whose query failed carries a
\* StoreUnavailable condition, so that the caller can tell it from the
\* result of a build over a window that holds no entries: two builds, one
\* whose query failed and one whose query found nothing, never return the
\* same value.
C16_FailedQueryDistinguishable ==
    \A k1 \in Kinds : \A k2 \in Kinds :
        ( /\ pc[k1] \in {"save", "finish"}
          /\ pc[k2] \in {"save", "finish"}
          /\ QueryHasFailed(k1)
          /\ ~QueryHasFailed(k2)
          /\ entries[k2] = <<>> )
        => summary[k1] # summary[k2]

\* C17 as stated: a manual trigger for kind K runs the builder-then-sink
\* pipeline of the scheduled job of kind K: once the request has been
\* served the user has been answered with the summary and a document has
\* been persisted through the sink.
C17_ManualRunsPipeline ==
    (man.pc = "idle" /\ manCount > 0) =>
        /\ manOut = "summary"
        /\ \E f \in DOMAIN files : files[f].state = "whole"

\* The build of k's run has read the clock and computed its window start.
WindowChosen(k) == pc[k] \in {"summarize", "calling", "save", "finish"}

\* C18: the window start is a fixed function of the kind and of `now` at
\* invocation: daily is 00:00 of the day of `now`, weekly is `now` minus
\* exactly 7 days, monthly is `now` minus exactly 30 days; it is never later
\* than `now`.
C18_WindowStart ==
    \A k \in Kinds :
        WindowChosen(k) =>
            /\ start_time[k] <= build_now[k]
            /\ build_now[k] <= now
            /\ k = "daily" =>
                  /\ start_time[k] % TicksPerDay = 0
                  /\ build_now[k] - start_time[k] < TicksPerDay
            /\ k = "weekly" => build_now[k] - start_time[k] = 7 * TicksPerDay
            /\ k = "monthly" => build_now[k] - start_time[k] = 30 * TicksPerDay

\* A daily build invoked after midnight has passed: its window starts at the
\* midnight before.
C18_Witness ==
    /\ WindowChosen("daily")
    /\ build_now["daily"] % TicksPerDay = 1
    /\ start_time["daily"] = build_now["daily"] - 1

\* The isoformat() text of every instant from a month and a day before the
\* clock starts up to its last tick.
IsoTexts ==
    [t \in (0 - (30 + 1) * TicksPerDay)..MaxNow |-> isoformat(t)]

\* The instant whose isoformat() is the stored text ts.
InstantOf(ts) == CHOOSE t \in DOMAIN IsoTexts : IsoTexts[t] = ts

C20_DocumentFields ==
    \A f \in DOMAIN files :
        files[f].state = "whole" =>
            {"window_kind", "generated_at", "Work", "Health", "Relationships", "Purpose"}
                \subseteq DOMAIN files[f].doc

\* C21: the summary core never mutates entries: across any sequence of daily,
\* weekly and monthly runs, successful or failed, no step of a run changes
\* the set of stored entries or a field of an entry.
C21_EntriesNeverMutated == [][store' = store]_vars

\* A run that was saved and a run whose sink write failed have both ended
\* over a store of three entries.
C21_Witness ==
    /\ Len(store) = 3
    /\ \A k \in Kinds : pc[k] = "idle"
    /\ \E k1 \in Kinds : \E k2 \in Kinds :
          /\ {"Summary saved to", "summary generated and saved."} \subseteq log[k1]
          /\ {"Error saving summary to file", "summary generated and saved."} \subseteq log[k2]

FullOrder == <<"query", "Work", "Health", "Relationships", "Purpose", "write">>

IsPrefix(a, b) == Len(a) <= Len(b) /\ \A i \in 1..Len(a) : a[i] = b[i]

\* C23: within one scheduled run the operations happen in a fixed order:
\* one entry-store query, then the summarization steps in the order Work,
\* Health, Relationships, Purpose, each finished before the next starts,
\* then one sink write; no sink write happens before all four categories
\* have a value.
C23_FixedOrder ==
    \A k \in Kinds :
        /\ IsPrefix(ops[k], FullOrder)
        /\ pc[k] = "calling" => Len(ops[k]) = idx[k]
        /\ pc[k] = "save" => Len(ops[k]) = 5
        /\ pc[k] = "finish" => ops[k] = FullOrder
        /\ (Len(ops[k]) > 0 /\ ops[k][Len(ops[k])] = "write") =>
              DOMAIN summary[k] = {"Work", "Health", "Relationships", "Purpose"}
        /\ \A i \in 2..Len(ops[k]) :
              ops[k][i] # "write" => ops[k][i] \in DOMAIN summary[k]

\* A run that asked the service for two categories has made its sink write.
C23_Witness ==
    \E k \in Kinds :
        /\ pc[k] = "finish"
        /\ ops[k] = FullOrder
        /\ calls[k]["Work"] = 1
        /\ calls[k]["Health"] = 1

\* Service calls made so far in k's run.
TotalCalls(k) ==
    calls[k]["Work"] + calls[k]["Health"] + calls[k]["Relationships"] + calls[k]["Purpose"]

\* C24: the builder never retries the driver: in one window build the
\* service is called exactly once for each category whose pool is non-empty
\* and never for an empty pool, also when a call fails; the total number of
\* calls of a build is the number of non-empty pools, at most 4.
C24_NoRetry ==
    \A k \in Kinds :
        /\ \A c \in {"Work", "Health", "Relationships", "Purpose"} :
              /\ calls[k][c] <= 1
              /\ c \in DOMAIN summary[k] =>
                    calls[k][c] = IF grouped[k][c] = <<>> THEN 0 ELSE 1
        /\ pc[k] \in {"save", "finish"} =>
              /\ TotalCalls(k) =
                    Cardinality({c \in {"Work", "Health", "Relationships", "Purpose"} :
                                    grouped[k][c] # <<>>})
              /\ TotalCalls(k) <= 4

\* A build has returned after the call for Work failed and the call for
\* Health was answered: one call each.
C24_Witness ==
    \E k \in Kinds :
        /\ pc[k] = "save"
        /\ "Work" \in failed[k]
        /\ summary[k]["Work"] = "Summary generation failed."
        /\ calls[k]["Work"] = 1
        /\ "Health" \in DOMAIN replied[k]
        /\ TotalCalls(k) >= 2

C27_AtMostOncePerPool ==
    gDone =>
        \A c \in {"Work", "Health", "Relationships", "Purpose"} :
            \A i \in 1..Len(gResult[c]) :
                Cardinality({j \in 1..Len(gResult[c]) : gResult[c][j] = gResult[c][i]})
                    <= Cardinality({e \in 1..Len(gEntries) : gEntries[e].text = gResult[c][i]})

\* C28: the date in the daily file's name is the date of the instant the
\* daily window started from, also when the run crosses midnight.
C28_FileDateIsWindowDate ==
    pc["daily"] \in {"save", "finish"} =>
        filename["daily"].date = DateOf(start_time["daily"])

\* The build of kind k has read the table and the row of text is among its
\* entries.
Selected(k, text) ==
    /\ pc[k] = "summarize"
    /\ \E m \in 1..Len(entries[k]) : entries[k][m].text = text

\* text is in the pool of c.
InPool(pools, c, text) == \E j \in 1..Len(pools[c]) : pools[c][j] = text

\* C26: a message whose categorization failed is handed to the insert with
\* an empty category string, its row, when the insert went through, is in
\* the table with that empty string, and a build that selects the row puts
\* its text in no pool.
C26_FailedCategorizationUncategorized ==
    \A i \in 1..Len(ingested) :
        ingested[i].reply.raised =>
            /\ ingested[i].categories = <<>>
            /\ ingested[i].stored =>
                  \E m \in 1..Len(store) :
                      /\ store[m].text = ingested[i].text
                      /\ store[m].cats = <<>>
            /\ \A k \in Kinds :
                  Selected(k, ingested[i].text) =>
                      \A c \in {"Work", "Health", "Relationships", "Purpose"} :
                          ~InPool(grouped[k], c, ingested[i].text)

\* A build has selected a row whose categorization failed, next to a row
\* that it put in a pool.
C26_Witness ==
    \E k \in Kinds : \E i, j \in 1..Len(ingested) :
        /\ ingested[i].reply.raised
        /\ ingested[i].stored
        /\ Selected(k, ingested[i].text)
        /\ Selected(k, ingested[j].text)
        /\ InPool(grouped[k], "Health", ingested[j].text)

\* The word of the vocabulary name c.
WordOf(c) ==
    CASE c = "Work" -> "work"
      [] c = "Health" -> "health"
      [] c = "Relationships" -> "relationships"
      [] c = "Purpose" -> "purpose"

\* The spellings of every vocabulary name: any case, any whitespace around.
SpellingsOf ==
    [c \in {"Work", "Health", "Relationships", "Purpose"} |-> TokenVariants(WordOf(c))]

\* The vocabulary categories the labels of a reply name.
NamedBy(cat_list) ==
    {c \in {"Work", "Health", "Relationships", "Purpose"} :
        \E n \in 1..Len(cat_list) : cat_list[n] \in SpellingsOf[c]}

\* C29: the labels of a categorization reply, written by the write path and
\* read back by the aggregator, put the entry in the pools of the vocabulary
\* categories they name and in no other pool.
C29_CategoryRoundTrip ==
    \A i \in 1..Len(ingested) :
        (~ingested[i].reply.raised /\ ingested[i].stored) =>
            \A k \in Kinds :
                Selected(k, ingested[i].text) =>
                    \A c \in {"Work", "Health", "Relationships", "Purpose"} :
                        InPool(grouped[k], c, ingested[i].text)
                            <=> c \in NamedBy(ingested[i].reply.val)

\* A build has read back a row whose labels were "work" and " Health", and
\* a row whose label was Health with whitespace on both sides.
C29_Witness ==
    \E k \in Kinds : \E i, j \in 1..Len(ingested) :
        /\ ~ingested[i].reply.raised
        /\ ingested[i].reply.val
              = <<Cased(Word("work"), "lower"), <<" ">> \o Cased(Word("health"), "title")>>
        /\ Selected(k, ingested[i].text)
        /\ InPool(grouped[k], "Work", ingested[i].text)
        /\ InPool(grouped[k], "Health", ingested[i].text)
        /\ ~ingested[j].reply.raised
        /\ ingested[j].reply.val
              = <<(<<" ">> \o Cased(Word("health"), "title") \o <<"\t">>)>>
        /\ Selected(k, ingested[j].text)
        /\ InPool(grouped[k], "Health", ingested[j].text)
        /\ ~InPool(grouped[k], "Work", ingested[j].text)

\* Every row of the SQLite file, in the order migrate_data copies them.
AllSourceRows == SourceRows(1) \o SourceRows(2) \o SourceRows(3)

====
